---- MODULE Spec2Model ----
(***************************************************************************)
(* csv-stream: the streaming CSV decoder of stream.go (Decoder: More,      *)
(* Decode, readRecord, peek, refill) driving the byte-level scanner        *)
(* (stateBeginValue ... stateEndValue).  Bytes are their integer codes,    *)
(* byte strings are sequences of codes, Go slices indexed from 0 are       *)
(* sequences indexed from 1 with the cursor kept 0-based as in the code.   *)
(***************************************************************************)
EXTENDS Integers, Sequences, FiniteSets, TLC

(* ------------------------------ bytes --------------------------------- *)
NUL == 0
TAB == 9
LF == 10
CR == 13
SP == 32
QUOTE == 34
COMMA == 44

\* bytes with no meaning to the program, used to build inputs and settings
Sample == [a |-> 97, b |-> 98, hash |-> 35, semicolon |-> 59]
LetterA == Sample.a
LetterB == Sample.b
HASH == Sample.hash
SEMI == Sample.semicolon

\* unicode.IsSpace restricted to one byte (Latin-1 range)
UnicodeIsSpace(c) == c \in {9, 10, 11, 12, 13, 32, 133, 160}

(* ------------------------------ errors -------------------------------- *)
Nil == "nil"
ErrBareQuote == "ErrBareQuote"
ErrQuote == "ErrQuote"
ErrFieldCount == "ErrFieldCount"
EOF == "io.EOF"
ErrUnexpectedEOF == "io.ErrUnexpectedEOF"
ErrIO == "source error"

\* the value of a nil []string: no byte is -1, so no record equals it
NoRecord == << <<-1>> >>

(* ------------------------ classification codes ------------------------ *)
scanContinue == "scanContinue"
scanBeginField == "scanBeginField"
scanFieldDelimiter == "scanFieldDelimiter"
scanSkipSpace == "scanSkipSpace"
scanEndRecord == "scanEndRecord"
scanCarriageReturn == "scanCarriageReturn"
scanBareQuotes == "scanBareQuotes"
scanEnd == "scanEnd"
scanError == "scanError"

(* ------------------------------ scanner ------------------------------- *)
\* A scanner is a record [Delimiter, TrimLeadingSpace, Comment, LazyQuotes,
\* step, err, redo, redoState, bytes]; a state function returns the scanner
\* after the byte together with the classification code v.
Ret(s, v) == [s |-> s, v |-> v]

\* reset leaving the state function of the last record in place (it sets
\* one only on a scanner that has none yet)
reset_keepStep(s) ==
    [s EXCEPT !.step = IF @ = Nil THEN "stateBeginValue" ELSE @, !.err = Nil, !.redo = FALSE]

reset(s) == [s EXCEPT !.step = "stateBeginValue", !.err = Nil, !.redo = FALSE]

stateBeginComment(s, c) ==
    IF c = LF THEN Ret([s EXCEPT !.step = "stateBeginValue"], scanSkipSpace)
    ELSE Ret(s, scanSkipSpace)

stateBeginValue(s, c) ==
    IF c = SP /\ s.TrimLeadingSpace THEN Ret(s, scanSkipSpace)
    ELSE IF c = s.Comment THEN Ret([s EXCEPT !.step = "stateBeginComment"], scanSkipSpace)
    ELSE IF c = s.Delimiter THEN
        IF s.err # Nil
        THEN (IF s.err = EOF THEN Ret(s, scanFieldDelimiter) ELSE Ret(s, scanSkipSpace))
        ELSE Ret(s, scanFieldDelimiter)
    ELSE IF c = QUOTE THEN Ret([s EXCEPT !.step = "stateInQuotedField"], scanSkipSpace)
    ELSE IF c = LF THEN Ret(s, scanEndRecord)
    ELSE Ret([s EXCEPT !.step = "stateInUnquotedField"], scanBeginField)

stateEndValue(s, c) ==
    IF c = s.Delimiter THEN Ret([s EXCEPT !.step = "stateBeginValue"], scanFieldDelimiter)
    ELSE Ret(s, scanEndRecord)

stateCarriageReturn(s, c) ==
    IF s.TrimLeadingSpace /\ c # LF /\ UnicodeIsSpace(c)
    THEN Ret([s EXCEPT !.step = "stateCarriageReturn"], scanSkipSpace)
    ELSE IF c = LF THEN stateEndValue(s, c)
    ELSE Ret([s EXCEPT !.step = s.redoState], scanCarriageReturn)

\* stateBareQuote classifying the second quote of a pair as skippable
stateBareQuote_dropDoubled(s, c) ==
    IF c = s.Delimiter THEN stateEndValue(s, c)
    ELSE IF c = LF THEN stateEndValue([s EXCEPT !.step = "stateBeginValue"], c)
    ELSE IF c # QUOTE THEN
        IF ~s.LazyQuotes THEN Ret([s EXCEPT !.err = ErrQuote], scanError)
        ELSE Ret([s EXCEPT !.step = "stateInQuotedField"], scanBareQuotes)
    ELSE Ret([s EXCEPT !.step = "stateInQuotedField"], scanSkipSpace)

stateBareQuote(s, c) ==
    IF c = s.Delimiter THEN stateEndValue(s, c)
    ELSE IF c = LF THEN stateEndValue([s EXCEPT !.step = "stateBeginValue"], c)
    ELSE IF c # QUOTE THEN
        IF ~s.LazyQuotes THEN Ret([s EXCEPT !.err = ErrQuote], scanError)
        ELSE Ret([s EXCEPT !.step = "stateInQuotedField"], scanBareQuotes)
    ELSE Ret([s EXCEPT !.step = "stateInQuotedField"], scanContinue)

\* stateInQuotedField ending the record at a line feed
stateInQuotedField_endsAtLineFeed(s, c) ==
    IF c = QUOTE THEN Ret([s EXCEPT !.step = "stateBareQuote"], scanSkipSpace)
    ELSE IF c = LF THEN Ret([s EXCEPT !.step = "stateBeginValue"], scanEndRecord)
    ELSE Ret(s, scanContinue)

stateInQuotedField(s, c) ==
    IF c = QUOTE THEN Ret([s EXCEPT !.step = "stateBareQuote"], scanSkipSpace)
    ELSE Ret(s, scanContinue)

stateInUnquotedField(s, c) ==
    IF c = s.Delimiter THEN stateBeginValue([s EXCEPT !.step = "stateBeginValue"], c)
    ELSE IF c = CR THEN
        Ret([s EXCEPT !.redoState = "stateInUnquotedField", !.step = "stateCarriageReturn"],
            scanSkipSpace)
    ELSE IF c = LF THEN Ret([s EXCEPT !.step = "stateBeginValue"], scanEndRecord)
    ELSE IF ~s.LazyQuotes /\ c = QUOTE THEN Ret([s EXCEPT !.err = ErrBareQuote], scanError)
    ELSE Ret(s, scanContinue)

\* s.step(&s, c): dispatch on the state function currently stored in s.step
step(s, c) ==
    CASE s.step = "stateBeginValue" -> stateBeginValue(s, c)
      [] s.step = "stateBeginComment" -> stateBeginComment(s, c)
      [] s.step = "stateInQuotedField" -> stateInQuotedField(s, c)
      [] s.step = "stateBareQuote" -> stateBareQuote(s, c)
      [] s.step = "stateInUnquotedField" -> stateInUnquotedField(s, c)
      [] s.step = "stateCarriageReturn" -> stateCarriageReturn(s, c)

(* --------------------------- byte source ------------------------------ *)
\* The io.Reader behind the decoder: data is the whole input, pos the number
\* of bytes already delivered, cuts the positions at which a read stops
\* short, endErr the error reported once the data is used up (io.EOF or a
\* source failure), errWithData whether that error accompanies the last
\* bytes or comes with a separate empty read, after the error of the reads
\* that follow the first report (a source may or may not repeat a failure)
\* and reported the failure, other than io.EOF, the source has returned.  Every read has at least
\* minRead bytes of room (refill grows the buffer first), more than any
\* input considered here, so a read is never cut short by capacity.
minRead == 512

\* F applied to the one element of S, that element computed once
With(S, F(_)) == CHOOSE out \in {F(x) : x \in S} : TRUE

Min(S) == CHOOSE x \in S : \A y \in S : x <= y

\* the source after it has returned its end error
Ended(r) ==
    [r EXCEPT !.endErr = r.after,
              !.reported = IF r.endErr = EOF THEN @ ELSE r.endErr]

Read(r) ==
    IF r.pos >= Len(r.data) THEN [r |-> Ended(r), bytes |-> <<>>, err |-> r.endErr]
    ELSE With({Min({k \in r.cuts : k > r.pos} \cup {Len(r.data)})}, LAMBDA stop :
         IF stop = Len(r.data) /\ r.errWithData
         THEN [r |-> [Ended(r) EXCEPT !.pos = stop],
               bytes |-> SubSeq(r.data, r.pos + 1, stop),
               err |-> r.endErr]
         ELSE [r |-> [r EXCEPT !.pos = stop],
               bytes |-> SubSeq(r.data, r.pos + 1, stop),
               err |-> Nil])

(* ------------------------------ decoder ------------------------------- *)
\* A decoder is a record [FieldsPerRecord, buf, scanp, scan, err,
\* lineBuffer, fieldIndexes].
NewDecoder ==
    [FieldsPerRecord |-> 0,
     buf |-> <<>>,
     scanp |-> 0,
     scan |-> [Delimiter |-> COMMA, TrimLeadingSpace |-> FALSE, Comment |-> NUL,
               LazyQuotes |-> FALSE, step |-> Nil, err |-> Nil, redo |-> FALSE,
               redoState |-> Nil, bytes |-> 0],
     err |-> Nil,
     lineBuffer |-> <<>>,
     fieldIndexes |-> <<>>]

isSpace(d, c) ==
    IF ~d.scan.TrimLeadingSpace THEN c = TAB \/ c = CR \/ c = LF
    ELSE c = SP \/ c = TAB \/ c = CR \/ c = LF

\* refill keeping only the bytes of the new read
refill_dropUnread(d, r) ==
    With({Read(r)}, LAMBDA rd :
        [d |-> [d EXCEPT !.buf = rd.bytes, !.scanp = 0], r |-> rd.r, err |-> rd.err])

\* refill sliding the unconsumed bytes down without moving the cursor to 0
refill_keepCursor(d, r) ==
    With({IF d.scanp > 0
          THEN [d EXCEPT !.buf = SubSeq(d.buf, d.scanp + 1, Len(d.buf))]
          ELSE d}, LAMBDA slid :
    With({Read(r)}, LAMBDA rd :
        [d |-> [slid EXCEPT !.buf = slid.buf \o rd.bytes], r |-> rd.r, err |-> rd.err]))

\* refill without the slide: the read appended, the consumed bytes kept
refill_keepConsumed(d, r) ==
    With({Read(r)}, LAMBDA rd :
        [d |-> [d EXCEPT !.buf = d.buf \o rd.bytes], r |-> rd.r, err |-> rd.err])

\* slide the unconsumed bytes down, then one source read appended to buf
refill(d, r) ==
    With({IF d.scanp > 0
          THEN [d EXCEPT !.buf = SubSeq(d.buf, d.scanp + 1, Len(d.buf)), !.scanp = 0]
          ELSE d}, LAMBDA slid :
    With({Read(r)}, LAMBDA rd :
        [d |-> [slid EXCEPT !.buf = slid.buf \o rd.bytes], r |-> rd.r, err |-> rd.err]))

\* index (0-based) of the first byte at or after i that is not space, or
\* Len(buf) when there is none
RECURSIVE peekScan(_, _)
peekScan(d, i) ==
    IF i >= Len(d.buf) THEN Len(d.buf)
    ELSE IF isSpace(d, d.buf[i + 1]) THEN peekScan(d, i + 1)
    ELSE i

\* peek looking at the error of the read before it scans the bytes of it
RECURSIVE peekLoop_errorFirst(_, _, _)
peekLoop_errorFirst(d, r, err) ==
    IF err # Nil THEN [d |-> d, r |-> r, c |-> 0, err |-> err]
    ELSE With({peekScan(d, d.scanp)}, LAMBDA i :
        IF i < Len(d.buf)
        THEN [d |-> [d EXCEPT !.scanp = i], r |-> r, c |-> d.buf[i + 1], err |-> Nil]
        ELSE With({refill(d, r)}, LAMBDA rf : peekLoop_errorFirst(rf.d, rf.r, rf.err)))

RECURSIVE peekLoop(_, _, _)
peekLoop(d, r, err) ==
    With({peekScan(d, d.scanp)}, LAMBDA i :
        IF i < Len(d.buf)
        THEN [d |-> [d EXCEPT !.scanp = i], r |-> r, c |-> d.buf[i + 1], err |-> Nil]
        ELSE IF err # Nil THEN [d |-> d, r |-> r, c |-> 0, err |-> err]
        ELSE With({refill(d, r)}, LAMBDA rf : peekLoop(rf.d, rf.r, rf.err)))

peek(d, r) == peekLoop(d, r, Nil)

More(d, r) ==
    With({peek(d, r)}, LAMBDA p :
        [d |-> p.d, r |-> p.r, ok |-> (p.err = Nil /\ p.d.scan.err = Nil)])

\* scanByte writing the delimiter into lineBuffer as well
scanByte_writeDelimiter(d, c) ==
    With({step([d.scan EXCEPT !.bytes = @ + 1], c)}, LAMBDA st :
    With({IF st.v # scanEndRecord /\ st.v # scanSkipSpace /\ st.v # scanError
          THEN Append(d.lineBuffer, c) ELSE d.lineBuffer}, LAMBDA lb :
        [d |-> [d EXCEPT !.scan = st.s,
                         !.lineBuffer = lb,
                         !.fieldIndexes = IF st.v = scanFieldDelimiter
                                          THEN Append(@, Len(lb)) ELSE @],
         v |-> st.v]))

\* scanByte marking a field boundary one byte too far
scanByte_offsetPastDelimiter(d, c) ==
    With({step([d.scan EXCEPT !.bytes = @ + 1], c)}, LAMBDA st :
    With({IF st.v # scanFieldDelimiter /\ st.v # scanEndRecord
             /\ st.v # scanSkipSpace /\ st.v # scanError
          THEN Append(d.lineBuffer, c) ELSE d.lineBuffer}, LAMBDA lb :
        [d |-> [d EXCEPT !.scan = st.s,
                         !.lineBuffer = lb,
                         !.fieldIndexes = IF st.v = scanFieldDelimiter
                                          THEN Append(@, Len(lb) + 1) ELSE @],
         v |-> st.v]))

\* the effect of one buffered byte c inside readRecord's inner loop:
\* the scanner steps, the byte is kept or dropped, a field boundary is marked
scanByte(d, c) ==
    With({step([d.scan EXCEPT !.bytes = @ + 1], c)}, LAMBDA st :
    With({IF st.v # scanFieldDelimiter /\ st.v # scanEndRecord
             /\ st.v # scanSkipSpace /\ st.v # scanError
          THEN Append(d.lineBuffer, c) ELSE d.lineBuffer}, LAMBDA lb :
        [d |-> [d EXCEPT !.scan = st.s,
                         !.lineBuffer = lb,
                         !.fieldIndexes = IF st.v = scanFieldDelimiter
                                          THEN Append(@, Len(lb)) ELSE @],
         v |-> st.v]))

\* readRecord's inner loop from the 0-based position i: "break" with the
\* new scanp, "error", or "exhausted" when the buffered bytes are used up
RECURSIVE scanLoop(_, _)
scanLoop(d, i) ==
    IF i >= Len(d.buf) THEN [tag |-> "exhausted", d |-> d, scanp |-> Len(d.buf)]
    ELSE With({scanByte(d, d.buf[i + 1])}, LAMBDA sb :
         IF sb.v = scanEnd THEN [tag |-> "break", d |-> sb.d, scanp |-> i]
         ELSE IF sb.v = scanEndRecord THEN
             [tag |-> "break",
              d |-> IF sb.d.scan.redo
                    THEN [sb.d EXCEPT !.lineBuffer = SubSeq(@, 1, Len(@) - 1)]
                    ELSE sb.d,
              scanp |-> i + 1]
         ELSE IF sb.v = scanError THEN
             [tag |-> "error", d |-> [sb.d EXCEPT !.err = sb.d.scan.err], scanp |-> i]
         ELSE scanLoop(sb.d, i + 1))

RECURSIVE readLoop(_, _, _, _)
readLoop(d, r, scanp, err) ==
    With({scanLoop(d, scanp)}, LAMBDA sl :
        IF sl.tag = "break"
        THEN [d |-> sl.d, r |-> r, n |-> sl.scanp - sl.d.scanp, err |-> Nil]
        ELSE IF sl.tag = "error"
        THEN [d |-> sl.d, r |-> r, n |-> 0, err |-> sl.d.scan.err]
        ELSE IF err # Nil THEN
            IF err = EOF
            THEN [d |-> [sl.d EXCEPT !.scanp = sl.scanp], r |-> r, n |-> 0, err |-> Nil]
            ELSE [d |-> [sl.d EXCEPT !.err = err], r |-> r, n |-> 0, err |-> err]
        ELSE With({refill(sl.d, r)}, LAMBDA rf :
                 readLoop(rf.d, rf.r, rf.d.scanp + (sl.scanp - sl.d.scanp), rf.err)))

readRecord(d, r) ==
    With({[d EXCEPT !.scan = reset(@), !.fieldIndexes = Append(@, 0)]}, LAMBDA d1 :
        readLoop(d1, r, d1.scanp, Nil))

\* the fields of the assembled record: lineBuffer cut at fieldIndexes
sliceFields(d) ==
    [i \in 1..Len(d.fieldIndexes) |->
        IF i = Len(d.fieldIndexes)
        THEN SubSeq(d.lineBuffer, d.fieldIndexes[i] + 1, Len(d.lineBuffer))
        ELSE SubSeq(d.lineBuffer, d.fieldIndexes[i] + 1, d.fieldIndexes[i + 1])]

\* checkFieldCount forgetting to store the error in the decoder
checkFieldCount_noStore(d, fields) ==
    IF d.FieldsPerRecord > 0 THEN
        IF Len(fields) # d.FieldsPerRecord
        THEN [d |-> d, fields |-> fields, err |-> ErrFieldCount]
        ELSE [d |-> d, fields |-> fields, err |-> Nil]
    ELSE IF d.FieldsPerRecord = 0
    THEN [d |-> [d EXCEPT !.FieldsPerRecord = Len(fields)], fields |-> fields, err |-> Nil]
    ELSE [d |-> d, fields |-> fields, err |-> Nil]

\* checkFieldCount never locking the count of the first record in
checkFieldCount_noLock(d, fields) ==
    IF d.FieldsPerRecord > 0 THEN
        IF Len(fields) # d.FieldsPerRecord
        THEN [d |-> [d EXCEPT !.err = ErrFieldCount], fields |-> fields, err |-> ErrFieldCount]
        ELSE [d |-> d, fields |-> fields, err |-> Nil]
    ELSE [d |-> d, fields |-> fields, err |-> Nil]

\* the FieldsPerRecord check at the end of Decode
checkFieldCount(d, fields) ==
    IF d.FieldsPerRecord > 0 THEN
        IF Len(fields) # d.FieldsPerRecord
        THEN [d |-> [d EXCEPT !.err = ErrFieldCount], fields |-> fields, err |-> ErrFieldCount]
        ELSE [d |-> d, fields |-> fields, err |-> Nil]
    ELSE IF d.FieldsPerRecord = 0
    THEN [d |-> [d EXCEPT !.FieldsPerRecord = Len(fields)], fields |-> fields, err |-> Nil]
    ELSE [d |-> d, fields |-> fields, err |-> Nil]

\* the error branch after readRecord
decodeError(d, err) ==
    With({IF err = EOF /\ Len(d.fieldIndexes) = 0 THEN ErrUnexpectedEOF ELSE err}, LAMBDA e :
        [d |-> [d EXCEPT !.err = e], fields |-> NoRecord, err |-> e])

\* Decode clearing the buffers of the last record before it looks at d.err
Decode_resetFirst(d, r) ==
    With({[d EXCEPT !.lineBuffer = <<>>, !.fieldIndexes = <<>>]}, LAMBDA d0 :
    IF d0.err # Nil THEN [d |-> d0, r |-> r, fields |-> NoRecord, err |-> d0.err]
    ELSE With({readRecord(d0, r)}, LAMBDA rr :
         IF rr.err # Nil
         THEN With({decodeError(rr.d, rr.err)}, LAMBDA de :
                  [d |-> de.d, r |-> rr.r, fields |-> de.fields, err |-> de.err])
         ELSE With({[rr.d EXCEPT !.scanp = @ + rr.n]}, LAMBDA d2 :
              With({checkFieldCount(d2, sliceFields(d2))}, LAMBDA cf :
                  [d |-> cf.d, r |-> rr.r, fields |-> cf.fields, err |-> cf.err]))))

Decode(d, r) ==
    IF d.err # Nil THEN [d |-> d, r |-> r, fields |-> NoRecord, err |-> d.err]
    ELSE With({readRecord([d EXCEPT !.lineBuffer = <<>>, !.fieldIndexes = <<>>], r)},
              LAMBDA rr :
         IF rr.err # Nil
         THEN With({decodeError(rr.d, rr.err)}, LAMBDA de :
                  [d |-> de.d, r |-> rr.r, fields |-> de.fields, err |-> de.err])
         ELSE With({[rr.d EXCEPT !.scanp = @ + rr.n]}, LAMBDA d2 :
              With({checkFieldCount(d2, sliceFields(d2))}, LAMBDA cf :
                  [d |-> cf.d, r |-> rr.r, fields |-> cf.fields, err |-> cf.err])))

(* ------------------------------ bounds -------------------------------- *)
MaxLen == 3        \* longest input of the free-call specification
MaxCalls == 4      \* calls made by the free caller
MaxResults == 8    \* call outcomes the looping caller remembers

(* --------------------------- state machine ---------------------------- *)
\* d: the Decoder, r: its byte source, cfg: the configuration the decoder
\* was set up with, pc: the caller's position ("free" for a caller that may
\* issue any call, "more"/"decode"/"done" for the loop
\* `for dec.More() { dec.Decode() }`), results: the outcomes of the calls
\* made so far, oldest first, shape: the pieces the input was built from
\* when it was built from pieces, frame: the local variables scanp and err
\* of the readRecord or peek call in progress, for the specification that
\* follows a call statement by statement.
VARIABLES d, r, cfg, pc, results, shape, frame
vars == <<d, r, cfg, pc, results, shape, frame>>

\* var err error; scanp not yet set
NoFrame == [scanp |-> 0, err |-> Nil]

Inputs(A, n) == UNION {[1..k -> A] : k \in 0..n}

Source(data, cuts, endErr, errWithData) ==
    [data |-> data, pos |-> 0, cuts |-> cuts, endErr |-> endErr, errWithData |-> errWithData,
     after |-> endErr, reported |-> Nil]

Config(delim, trim, comment, lazy, fpr) ==
    [Delimiter |-> delim, TrimLeadingSpace |-> trim, Comment |-> comment,
     LazyQuotes |-> lazy, FieldsPerRecord |-> fpr]

\* the configuration NewDecoder leaves
Default == Config(COMMA, FALSE, NUL, FALSE, 0)

\* a decoder as the package configures it after NewDecoder
Configured(c) ==
    [NewDecoder EXCEPT !.FieldsPerRecord = c.FieldsPerRecord,
                       !.scan.Delimiter = c.Delimiter,
                       !.scan.TrimLeadingSpace = c.TrimLeadingSpace,
                       !.scan.Comment = c.Comment,
                       !.scan.LazyQuotes = c.LazyQuotes]

MoreOutcome(ok) == [op |-> "More", ok |-> ok, fields |-> NoRecord, err |-> Nil]
DecodeOutcome(fields, err) == [op |-> "Decode", ok |-> (err = Nil), fields |-> fields, err |-> err]

\* the state a caller starts in
Start(c, src, p, sh) ==
    /\ cfg = c
    /\ d = Configured(c)
    /\ r = src
    /\ pc = p
    /\ results = <<>>
    /\ shape = sh
    /\ frame = NoFrame

Alphabet == {LetterA, COMMA, QUOTE, LF, TAB}

Init ==
    \E data \in Inputs(Alphabet, MaxLen), endErr \in {EOF, ErrIO}, fpr \in {0, 2, -1} :
        Start([Default EXCEPT !.FieldsPerRecord = fpr], Source(data, {}, endErr, FALSE),
              "free", <<>>)

\* the caller calls dec.More()
CallMore ==
    /\ pc = "free"
    /\ Len(results) < MaxCalls
    /\ \E m \in {More(d, r)} :
          /\ d' = m.d
          /\ r' = m.r
          /\ results' = Append(results, MoreOutcome(m.ok))
    /\ UNCHANGED <<cfg, pc, shape, frame>>

\* the caller calls dec.Decode()
CallDecode ==
    /\ pc = "free"
    /\ Len(results) < MaxCalls
    /\ \E dc \in {Decode(d, r)} :
          /\ d' = dc.d
          /\ r' = dc.r
          /\ results' = Append(results, DecodeOutcome(dc.fields, dc.err))
    /\ UNCHANGED <<cfg, pc, shape, frame>>

Next == CallMore \/ CallDecode

Spec == Init /\ [][Next]_vars

(* ------------------------- the looping caller ------------------------- *)
\* for dec.More() { record, err := dec.Decode() }: the README's usage loop.
\* The caller remembers the first MaxResults outcomes only, so that a loop
\* that never ends is a cycle of finitely many states.
Remember(rs, o) == IF Len(rs) < MaxResults THEN Append(rs, o) ELSE rs

LoopMore ==
    /\ pc = "more"
    /\ \E m \in {More(d, r)} :
          /\ d' = m.d
          /\ r' = m.r
          /\ results' = Remember(results, MoreOutcome(m.ok))
          /\ pc' = IF m.ok THEN "decode" ELSE "done"
    /\ UNCHANGED <<cfg, shape, frame>>

LoopDecode ==
    /\ pc = "decode"
    /\ \E dc \in {Decode(d, r)} :
          /\ d' = dc.d
          /\ r' = dc.r
          /\ results' = Remember(results, DecodeOutcome(dc.fields, dc.err))
          /\ pc' = "more"
    /\ UNCHANGED <<cfg, shape, frame>>

LoopNext == LoopMore \/ LoopDecode

\* the outcomes of the first n calls of the loop started on decoder dd and
\* source rr, computed call by call
RECURSIVE LoopRun(_, _, _)
LoopRun(dd, rr, n) ==
    IF n = 0 THEN <<>>
    ELSE With({More(dd, rr)}, LAMBDA m :
         IF ~m.ok \/ n = 1 THEN <<MoreOutcome(m.ok)>>
         ELSE With({Decode(m.d, m.r)}, LAMBDA dc :
              <<MoreOutcome(TRUE), DecodeOutcome(dc.fields, dc.err)>>
                  \o LoopRun(dc.d, dc.r, n - 2)))

MaxLoopLen == 4    \* longest input of the looping caller

LoopAlphabet == {LetterA, COMMA, QUOTE, CR, LF, SP}

InitLoop ==
    \E data \in Inputs(LoopAlphabet, MaxLoopLen), endErr \in {EOF, ErrIO}, fpr \in {0, 2} :
        Start([Default EXCEPT !.FieldsPerRecord = fpr], Source(data, {}, endErr, FALSE),
              "more", <<>>)

SpecLoop == InitLoop /\ [][LoopNext]_vars

MaxChunkLen == 3   \* longest input delivered in chunks

ChunkAlphabet == {LetterA, COMMA, QUOTE, CR, LF, SP, HASH}

ChunkConfigs ==
    {Default,
     [Default EXCEPT !.LazyQuotes = TRUE],
     [Default EXCEPT !.TrimLeadingSpace = TRUE],
     [Default EXCEPT !.Comment = HASH],
     [Default EXCEPT !.FieldsPerRecord = 1],
     [Default EXCEPT !.FieldsPerRecord = -1]}

\* every way of cutting the input into reads, end-of-input with the last
\* bytes or on a read of its own
InitChunks ==
    \E data \in Inputs(ChunkAlphabet, MaxChunkLen), c \in ChunkConfigs, with \in BOOLEAN :
        \E cuts \in SUBSET (1..(Len(data) - 1)) :
            Start(c, Source(data, cuts, EOF, with), "more", <<>>)

SpecChunks == InitChunks /\ [][LoopNext]_vars

MaxLineLen == 3    \* longest record line of the single-line inputs

LineAlphabet == {LetterA, COMMA, SEMI, QUOTE, SP, NUL}

\* one record line, ended by a line feed, by CR LF or by the end of the
\* input, read with comma or semicolon as the delimiter
InitLine ==
    \E body \in Inputs(LineAlphabet, MaxLineLen), term \in {<<>>, <<LF>>, <<CR, LF>>},
       delim \in {COMMA, SEMI} :
        Start([Default EXCEPT !.Delimiter = delim], Source(body \o term, {}, EOF, FALSE),
              "free", [body |-> body, term |-> term])

SpecLine == InitLine /\ [][Next]_vars

MaxContent == 3    \* longest content of a quoted field

QuotedAlphabet == {LetterA, QUOTE, COMMA, LF, CR}

\* the text of a quoted field: the content with every quote doubled,
\* between two quotes
RECURSIVE Doubled(_)
Doubled(content) ==
    IF content = <<>> THEN <<>>
    ELSE (IF Head(content) = QUOTE THEN <<QUOTE, QUOTE>> ELSE <<Head(content)>>)
             \o Doubled(Tail(content))

QuotedText(content) == <<QUOTE>> \o Doubled(content) \o <<QUOTE>>

\* a quoted field, first in its record or after an unquoted field, ending
\* the input, its line, or followed by one more field
InitQuoted ==
    \E content \in Inputs(QuotedAlphabet, MaxContent),
       prefix \in {<<>>, <<LetterA, COMMA>>},
       suffix \in {<<>>, <<LF>>, <<COMMA, LetterA>>},
       lazy \in BOOLEAN :
        Start([Default EXCEPT !.LazyQuotes = lazy],
              Source(prefix \o QuotedText(content) \o suffix, {}, EOF, FALSE),
              "free", [prefix |-> prefix, content |-> content, suffix |-> suffix])

SpecQuoted == InitQuoted /\ [][Next]_vars

(* ----------------------- the single-record caller --------------------- *)
\* a caller that decodes one record, with or without asking More first
OnceMore ==
    /\ pc = "once"
    /\ results = <<>>
    /\ \E m \in {More(d, r)} :
          /\ d' = m.d
          /\ r' = m.r
          /\ results' = Append(results, MoreOutcome(m.ok))
    /\ UNCHANGED <<cfg, pc, shape, frame>>

OnceDecode ==
    /\ pc = "once"
    /\ \E dc \in {Decode(d, r)} :
          /\ d' = dc.d
          /\ r' = dc.r
          /\ results' = Append(results, DecodeOutcome(dc.fields, dc.err))
    /\ pc' = "done"
    /\ UNCHANGED <<cfg, shape, frame>>

OnceNext == OnceMore \/ OnceDecode

MaxFieldLen == 4   \* longest record line of the field-level inputs

FieldAlphabet == {LetterA, COMMA, QUOTE, CR, SP, TAB, HASH}

FieldConfigs ==
    {Default,
     [Default EXCEPT !.LazyQuotes = TRUE],
     [Default EXCEPT !.TrimLeadingSpace = TRUE],
     [Default EXCEPT !.Comment = HASH],
     [Default EXCEPT !.TrimLeadingSpace = TRUE, !.Comment = HASH]}

\* one record line over quotes, delimiters, white space, carriage returns
\* and the comment marker, under each option of the scanner
InitField ==
    \E body \in Inputs(FieldAlphabet, MaxFieldLen), term \in {<<>>, <<LF>>, <<CR, LF>>},
       c \in FieldConfigs :
        Start(c, Source(body \o term, {}, EOF, FALSE), "once", [body |-> body, term |-> term])

SpecField == InitField /\ [][OnceNext]_vars

(* ------------------------- the failing source ------------------------- *)
MaxFailLen == 2    \* longest input of a source that fails

FailAlphabet == {LetterA, COMMA, LF, TAB}

\* a source that fails after its data, with its last bytes or on a read of
\* its own, and then repeats the failure or reports end-of-input
InitFail ==
    \E data \in Inputs(FailAlphabet, MaxFailLen), with \in BOOLEAN, after \in {ErrIO, EOF},
       fpr \in {0, 2} :
        \E cuts \in SUBSET (1..(Len(data) - 1)) :
            Start([Default EXCEPT !.FieldsPerRecord = fpr],
                  [Source(data, cuts, ErrIO, with) EXCEPT !.after = after],
                  "free", <<>>)

SpecFail == InitFail /\ [][Next]_vars

(* ------------------------- the scanner by itself ---------------------- *)
\* The scanner driven byte by byte, as readRecord drives it, and reset as
\* readRecord resets it; d.scan is the scanner, results the codes returned.
MaxSteps == 4      \* calls made on the scanner

ScanAlphabet == {LetterA, COMMA, QUOTE, CR, LF}

StepOutcome(c, v, err) == [op |-> "step", c |-> c, v |-> v, err |-> err]
ResetOutcome == [op |-> "reset", c |-> 0, v |-> scanContinue, err |-> Nil]

ScanStep ==
    /\ pc = "scan"
    /\ Len(results) < MaxSteps
    /\ \E c \in ScanAlphabet :
          \E st \in {step([d.scan EXCEPT !.bytes = @ + 1], c)} :
              /\ d' = [d EXCEPT !.scan = st.s]
              /\ results' = Append(results, StepOutcome(c, st.v, st.s.err))
    /\ UNCHANGED <<r, cfg, pc, shape, frame>>

ScanReset ==
    /\ pc = "scan"
    /\ Len(results) < MaxSteps
    /\ d' = [d EXCEPT !.scan = reset(@)]
    /\ results' = Append(results, ResetOutcome)
    /\ UNCHANGED <<r, cfg, pc, shape, frame>>

ScanNext == ScanStep \/ ScanReset

InitScanner ==
    \E lazy \in BOOLEAN :
        /\ cfg = [Default EXCEPT !.LazyQuotes = lazy]
        /\ d = [Configured(cfg) EXCEPT !.scan = reset(@)]
        /\ r = Source(<<>>, {}, EOF, FALSE)
        /\ pc = "scan"
        /\ results = <<>>
        /\ shape = <<>>
        /\ frame = NoFrame

SpecScanner == InitScanner /\ [][ScanNext]_vars

(* ------------------ a quoted field over several reads ----------------- *)
MaxSpanLen == 3    \* longest content of a quoted field read in chunks

SpanAlphabet == {LetterA, COMMA, CR, LF}

\* a record that starts with a quoted field holding delimiters, carriage
\* returns and line feeds, ending the input, its line, or followed by one
\* more field, delivered in every chunking
InitSpan ==
    \E content \in Inputs(SpanAlphabet, MaxSpanLen),
       suffix \in {<<>>, <<LF>>, <<COMMA, LetterA, LF>>} :
        \E cuts \in SUBSET (1..(Len(content) + 1 + Len(suffix))) :
            Start(Default, Source(QuotedText(content) \o suffix, cuts, EOF, FALSE),
                  "once", [prefix |-> <<>>, content |-> content, suffix |-> suffix])

SpecSpan == InitSpan /\ [][OnceNext]_vars

(* ------------------- records up to the end of input ------------------ *)
MaxTailLen == 4    \* longest input of plain lines read to the end of input

TailAlphabet == {LetterA, COMMA, LF}

\* plain lines, the last one ended or not, delivered in every chunking, the
\* end of input reported with the last bytes or by a read of its own; the
\* caller loops on More and the field count is not checked
InitTail ==
    \E data \in Inputs(TailAlphabet, MaxTailLen), with \in BOOLEAN :
        \E cuts \in SUBSET (1..(Len(data) - 1)) :
            Start([Default EXCEPT !.FieldsPerRecord = -1], Source(data, cuts, EOF, with),
                  "more", <<>>)

SpecTail == InitTail /\ [][LoopNext]_vars

(* -------------------- a call, statement by statement ------------------ *)
\* More and Decode followed through their loops: pc is "idle" between
\* calls, "peek" at the top of peek's loop, "scan" inside readRecord's
\* loop, "peekRefill"/"readRefill" right before the refill call of either,
\* "slice" after readRecord has returned a record.  frame.scanp is
\* readRecord's scanp plus the index i of its inner loop.  Besides the
\* outcomes of the calls, results records every byte the scanner is
\* stepped on, with the code it returned, and every byte More steps over.
MaxStepLen == 3    \* longest input of the statement-level specification
MaxStepCalls == 2  \* calls followed statement by statement

ByteEvent(c, v) == [op |-> "byte", c |-> c, v |-> v]
\* the bytes from the cursor up to position i of the buffer, which peek
\* steps over when it moves the cursor to i
SkipEvents(dd, i) == [k \in 1..(i - dd.scanp) |-> [op |-> "skip", c |-> dd.buf[dd.scanp + k]]]
BeginEvent == [op |-> "begin"]

IsCall(o) == o.op = "More" \/ o.op = "Decode"
RECURSIVE Calls(_)
Calls(rs) == IF rs = <<>> THEN 0 ELSE (IF IsCall(Head(rs)) THEN 1 ELSE 0) + Calls(Tail(rs))

\* func (d *Decoder) More(): var err error
MoreBegin ==
    /\ pc = "idle"
    /\ Calls(results) < MaxStepCalls
    /\ pc' = "peek"
    /\ frame' = NoFrame
    /\ UNCHANGED <<d, r, cfg, results, shape>>

\* peek: the scan of the buffer, then the look at err
PeekBuffer ==
    /\ pc = "peek"
    /\ \E i \in {peekScan(d, d.scanp)} :
          IF i < Len(d.buf)
          THEN /\ d' = [d EXCEPT !.scanp = i]
               /\ results' = Append(results \o SkipEvents(d, i), MoreOutcome(d.scan.err = Nil))
               /\ pc' = "idle"
          ELSE IF frame.err # Nil
          THEN /\ results' = Append(results, MoreOutcome(FALSE))
               /\ pc' = "idle"
               /\ d' = d
          ELSE /\ pc' = "peekRefill"
               /\ UNCHANGED <<d, results>>
    /\ UNCHANGED <<r, cfg, shape, frame>>

\* peek: err = d.refill()
PeekRefill ==
    /\ pc = "peekRefill"
    /\ \E rf \in {refill(d, r)} :
          /\ d' = rf.d
          /\ r' = rf.r
          /\ frame' = [frame EXCEPT !.err = rf.err]
    /\ pc' = "peek"
    /\ UNCHANGED <<cfg, results, shape>>

\* Decode up to readRecord's loop: the early return of a failed decoder,
\* else the buffers and the scanner reset and the offset 0 appended
DecodeBegin ==
    /\ pc = "idle"
    /\ Calls(results) < MaxStepCalls
    /\ IF d.err # Nil
       THEN /\ results' = Append(results, DecodeOutcome(NoRecord, d.err))
            /\ UNCHANGED <<d, pc, frame>>
       ELSE /\ d' = [d EXCEPT !.lineBuffer = <<>>, !.fieldIndexes = <<0>>, !.scan = reset(@)]
            /\ frame' = [scanp |-> d.scanp, err |-> Nil]
            /\ pc' = "scan"
            /\ results' = Append(results, BeginEvent)
    /\ UNCHANGED <<r, cfg, shape>>

\* one turn of readRecord's inner loop
ScanOne ==
    /\ pc = "scan"
    /\ frame.scanp < Len(d.buf)
    /\ \E c \in {d.buf[frame.scanp + 1]} : \E sb \in {scanByte(d, c)} :
          IF sb.v = scanEnd
          THEN /\ d' = sb.d
               /\ results' = Append(results, ByteEvent(c, sb.v))
               /\ pc' = "slice"
               /\ frame' = frame
          ELSE IF sb.v = scanEndRecord
          THEN /\ d' = IF sb.d.scan.redo
                       THEN [sb.d EXCEPT !.lineBuffer = SubSeq(@, 1, Len(@) - 1)]
                       ELSE sb.d
               /\ results' = Append(results, ByteEvent(c, sb.v))
               /\ pc' = "slice"
               /\ frame' = [frame EXCEPT !.scanp = @ + 1]
          ELSE IF sb.v = scanError
          THEN \E de \in {decodeError([sb.d EXCEPT !.err = sb.d.scan.err], sb.d.scan.err)} :
                  /\ d' = de.d
                  /\ results' = Append(Append(results, ByteEvent(c, sb.v)),
                                       DecodeOutcome(de.fields, de.err))
                  /\ pc' = "idle"
                  /\ frame' = frame
          ELSE /\ d' = sb.d
               /\ results' = Append(results, ByteEvent(c, sb.v))
               /\ pc' = "scan"
               /\ frame' = [frame EXCEPT !.scanp = @ + 1]
    /\ UNCHANGED <<r, cfg, shape>>

\* readRecord after its inner loop: scanp = len(d.buf), then the look at err
ScanExhausted ==
    /\ pc = "scan"
    /\ frame.scanp >= Len(d.buf)
    /\ IF frame.err = EOF
       THEN /\ d' = [d EXCEPT !.scanp = Len(d.buf)]
            /\ frame' = [frame EXCEPT !.scanp = Len(d.buf)]
            /\ pc' = "slice"
            /\ results' = results
       ELSE IF frame.err # Nil
       THEN \E de \in {decodeError([d EXCEPT !.err = frame.err], frame.err)} :
               /\ d' = de.d
               /\ results' = Append(results, DecodeOutcome(de.fields, de.err))
               /\ pc' = "idle"
               /\ frame' = frame
       ELSE /\ pc' = "readRefill"
            /\ frame' = [frame EXCEPT !.scanp = Len(d.buf)]
            /\ UNCHANGED <<d, results>>
    /\ UNCHANGED <<r, cfg, shape>>

\* readRecord: n := scanp - d.scanp; err = d.refill(); scanp = d.scanp + n
ReadRefill ==
    /\ pc = "readRefill"
    /\ \E rf \in {refill(d, r)} :
          /\ d' = rf.d
          /\ r' = rf.r
          /\ frame' = [scanp |-> rf.d.scanp + (frame.scanp - d.scanp), err |-> rf.err]
    /\ pc' = "scan"
    /\ UNCHANGED <<cfg, results, shape>>

\* Decode after readRecord: d.scanp += n, the fields, the field count
Slice ==
    /\ pc = "slice"
    /\ \E d2 \in {[d EXCEPT !.scanp = @ + (frame.scanp - @)]} :
          \E cf \in {checkFieldCount(d2, sliceFields(d2))} :
              /\ d' = cf.d
              /\ results' = Append(results, DecodeOutcome(cf.fields, cf.err))
    /\ pc' = "idle"
    /\ UNCHANGED <<r, cfg, shape, frame>>

StepNext ==
    \/ MoreBegin \/ PeekBuffer \/ PeekRefill
    \/ DecodeBegin \/ ScanOne \/ ScanExhausted \/ ReadRefill \/ Slice

StepAlphabet == {LetterA, COMMA, QUOTE, LF, TAB}

InitSteps ==
    \E data \in Inputs(StepAlphabet, MaxStepLen), endErr \in {EOF, ErrIO}, with \in BOOLEAN,
       c \in {Default, [Default EXCEPT !.FieldsPerRecord = 2]} :
        \E cuts \in SUBSET (1..(Len(data) - 1)) :
            Start(c, Source(data, cuts, endErr, with), "idle", <<>>)

SpecSteps == InitSteps /\ [][StepNext]_vars

(* ----------------------- helpers of the claims ------------------------ *)
Last(sq) == sq[Len(sq)]
IsPrefix(p, sq) == Len(p) <= Len(sq) /\ \A i \in 1..Len(p) : p[i] = sq[i]
\* the call just made, if any
JustCalled(op) == results # <<>> /\ Last(results).op = op
\* the bytes the decoder has not consumed: the buffer from the cursor on,
\* then what the source has not delivered
Unconsumed == SubSeq(d.buf, d.scanp + 1, Len(d.buf)) \o SubSeq(r.data, r.pos + 1, Len(r.data))

(* ---------------------- the reference batch parser -------------------- *)
\* Go's encoding/csv Reader (the parser the README names), as of the release
\* whose Reader has the lineBuffer and fieldIndexes fields this decoder
\* copies: readRune folds CR LF into LF, parseField splits one field,
\* readRecord assembles a line, Read skips empty and comment lines and
\* checks the field count.  i is the 1-based position of the next byte.
csvReadRune(data, i) ==
    IF i > Len(data) THEN [c |-> 0, i |-> i, err |-> EOF]
    ELSE IF data[i] = CR THEN
        IF i + 1 > Len(data) THEN [c |-> 0, i |-> i + 1, err |-> EOF]
        ELSE IF data[i + 1] = LF THEN [c |-> LF, i |-> i + 2, err |-> Nil]
        ELSE [c |-> CR, i |-> i + 1, err |-> Nil]
    ELSE [c |-> data[i], i |-> i + 1, err |-> Nil]

Field(have, delim, err, i, bytes) ==
    [have |-> have, delim |-> delim, err |-> err, i |-> i, bytes |-> bytes]

RECURSIVE csvQuoted(_, _, _, _)
csvQuoted(c, data, i, acc) ==
    LET r1 == csvReadRune(data, i) IN
    IF r1.err # Nil THEN
        IF c.LazyQuotes THEN Field(TRUE, 0, EOF, r1.i, acc)
        ELSE Field(FALSE, 0, ErrQuote, r1.i, acc)
    ELSE IF r1.c = QUOTE THEN
        LET r2 == csvReadRune(data, r1.i) IN
        IF r2.err # Nil THEN Field(TRUE, 0, EOF, r2.i, acc)
        ELSE IF r2.c = c.Delimiter THEN Field(TRUE, r2.c, Nil, r2.i, acc)
        ELSE IF r2.c = LF THEN Field(TRUE, LF, Nil, r2.i, acc)
        ELSE IF r2.c # QUOTE THEN
            IF ~c.LazyQuotes THEN Field(FALSE, 0, ErrQuote, r2.i, acc)
            ELSE csvQuoted(c, data, r2.i, acc \o <<QUOTE, r2.c>>)
        ELSE csvQuoted(c, data, r2.i, Append(acc, QUOTE))
    ELSE csvQuoted(c, data, r1.i, Append(acc, r1.c))

RECURSIVE csvUnquoted(_, _, _, _)
csvUnquoted(c, data, i, acc) ==
    LET r1 == csvReadRune(data, i) IN
    IF r1.err # Nil THEN Field(TRUE, 0, EOF, r1.i, acc)
    ELSE IF r1.c = c.Delimiter THEN Field(TRUE, r1.c, Nil, r1.i, acc)
    ELSE IF r1.c = LF THEN Field(TRUE, LF, Nil, r1.i, acc)
    ELSE IF ~c.LazyQuotes /\ r1.c = QUOTE THEN Field(FALSE, 0, ErrBareQuote, r1.i, acc)
    ELSE csvUnquoted(c, data, r1.i, Append(acc, r1.c))

\* the reads that skip leading white space; n counts the runes read
RECURSIVE csvFirstRune(_, _, _, _)
csvFirstRune(c, data, i, n) ==
    LET r1 == csvReadRune(data, i) IN
    IF r1.err = Nil /\ c.TrimLeadingSpace /\ r1.c # LF /\ UnicodeIsSpace(r1.c)
    THEN csvFirstRune(c, data, r1.i, n + 1)
    ELSE [r1 |-> r1, n |-> n + 1]

\* first: no rune of the record has been read yet (the column is 0 after
\* the first rune)
csvParseField(c, data, i, first) ==
    LET fr == csvFirstRune(c, data, i, 0)
        r1 == fr.r1
        column0 == first /\ fr.n = 1
    IN IF r1.err = EOF /\ ~column0 THEN Field(TRUE, 0, EOF, r1.i, <<>>)
       ELSE IF r1.err # Nil THEN Field(FALSE, 0, r1.err, r1.i, <<>>)
       ELSE IF r1.c = c.Delimiter THEN Field(TRUE, r1.c, Nil, r1.i, <<>>)
       ELSE IF r1.c = LF THEN Field(~column0, LF, Nil, r1.i, <<>>)
       ELSE IF r1.c = QUOTE THEN csvQuoted(c, data, r1.i, <<>>)
       ELSE csvUnquoted(c, data, r1.i, <<r1.c>>)

RECURSIVE csvFields(_, _, _, _, _)
csvFields(c, data, i, first, acc) ==
    LET f == csvParseField(c, data, i, first)
        fs == IF f.have THEN Append(acc, f.bytes) ELSE acc
    IN IF f.delim = LF \/ f.err = EOF
       THEN [rec |-> fs, err |-> IF fs = <<>> THEN f.err ELSE Nil, i |-> f.i]
       ELSE IF f.err # Nil THEN [rec |-> <<>>, err |-> f.err, i |-> f.i]
       ELSE csvFields(c, data, f.i, FALSE, fs)

\* the position after the next line feed
RECURSIVE csvSkipLine(_, _)
csvSkipLine(data, i) ==
    LET r1 == csvReadRune(data, i) IN
    IF r1.err # Nil THEN [rec |-> <<>>, err |-> r1.err, i |-> r1.i]
    ELSE IF r1.c = LF THEN [rec |-> <<>>, err |-> Nil, i |-> r1.i]
    ELSE csvSkipLine(data, r1.i)

\* one line: rec is <<>> when the line holds no record
csvReadRecord(c, data, i) ==
    IF i > Len(data) THEN [rec |-> <<>>, err |-> EOF, i |-> i]
    ELSE IF c.Comment # 0 /\ data[i] = c.Comment THEN csvSkipLine(data, i + 1)
    ELSE csvFields(c, data, i, TRUE, <<>>)

\* ReadAll: the records up to the end of the input or the first error
RECURSIVE csvReadAll(_, _, _, _, _)
csvReadAll(c, data, i, fpr, recs) ==
    LET rr == csvReadRecord(c, data, i) IN
    IF rr.rec = <<>> THEN
        IF rr.err # Nil
        THEN [records |-> recs, err |-> IF rr.err = EOF THEN Nil ELSE rr.err]
        ELSE csvReadAll(c, data, rr.i, fpr, recs)
    ELSE IF fpr > 0 /\ Len(rr.rec) # fpr THEN [records |-> recs, err |-> ErrFieldCount]
    ELSE csvReadAll(c, data, rr.i, IF fpr = 0 THEN Len(rr.rec) ELSE fpr, Append(recs, rr.rec))

csvReader(c, data) == csvReadAll(c, data, 1, c.FieldsPerRecord, <<>>)

\* what the loop delivered: the records before its first error, and that error
RECURSIVE Delivered(_, _, _)
Delivered(rs, k, recs) ==
    IF k > Len(rs) THEN [records |-> recs, err |-> Nil]
    ELSE IF rs[k].op = "More" THEN Delivered(rs, k + 1, recs)
    ELSE IF rs[k].err # Nil THEN [records |-> recs, err |-> rs[k].err]
    ELSE Delivered(rs, k + 1, Append(recs, rs[k].fields))

\* the loop is over, or has delivered an error
LoopSettled == pc = "done" \/ (JustCalled("Decode") /\ Last(results).err # Nil)

(* ------------------------------ claims -------------------------------- *)

\* C2: the loop `for More() { Decode() }` terminates, also after a Decode
\* call has returned an error.  The loop is deterministic, so an iteration
\* that leaves the decoder and the source exactly as it found them repeats
\* forever: termination requires that no iteration the loop reaches does so.
LoopNeverRepeats ==
    (pc = "more") =>
        LET m == More(d, r)
            dc == Decode(m.d, m.r)
        IN m.ok => (dc.d # d \/ dc.r # r)

\* C6: with the default configuration and an input that ends with
\* end-of-input, the records the loop delivers and its first error are those
\* of the reference batch parser on the same input.
CompatibleWithReference ==
    (cfg = Default /\ r.endErr = EOF /\ LoopSettled)
        => Delivered(results, 1, <<>>) = csvReader(cfg, r.data)

\* C3: sticky failure.  Once a Decode call has returned an error, every
\* later Decode call returns that same error and no record, whatever More
\* and Decode calls come in between.
StickyFailure ==
    \A i, j \in 1..Len(results) :
        (i < j /\ results[i].op = "Decode" /\ results[i].err # Nil /\ results[j].op = "Decode")
            => (results[j].err = results[i].err /\ results[j].fields = NoRecord)

\* a wrong field count, then More still reporting data, then Decode again
StickyFailureWitness ==
    \E i, k, j \in 1..Len(results) :
        /\ i < k /\ k < j
        /\ results[i].op = "Decode" /\ results[i].err = ErrFieldCount
        /\ results[k].op = "More" /\ results[k].ok
        /\ results[j].op = "Decode" /\ results[j].err = ErrFieldCount

\* a byte that belongs to a record: anything but the line terminator bytes
RecordContent(c) == c # CR /\ c # LF

\* C4, first part: More reports false when nothing is left unconsumed
MoreFalseAtEnd == (JustCalled("More") /\ Unconsumed = <<>>) => ~Last(results).ok

\* C4, second part: once More has returned false it never returns true
MoreStaysFalse ==
    \A i, j \in 1..Len(results) :
        (i < j /\ results[i].op = "More" /\ results[j].op = "More" /\ ~results[i].ok)
            => ~results[j].ok

\* C4, third part: on a decoder that has not failed, reading a source that
\* ends with end-of-input, More does not return false while a byte of record
\* content is unconsumed in the buffer or the source
MoreFalseOnlyWhenDrained ==
    (JustCalled("More") /\ ~Last(results).ok /\ r.endErr = EOF /\ d.err = Nil)
        => \A i \in 1..Len(Unconsumed) : ~RecordContent(Unconsumed[i])

\* C4: after the last record More returns false and stays false, and it
\* never returns false while record content is unconsumed.
MoreFalseExactlyAtEnd == MoreFalseAtEnd /\ MoreStaysFalse /\ MoreFalseOnlyWhenDrained

\* C5: More only peeks.  Where the next unconsumed byte is not a line feed
\* (More is not skipping an empty line), Decode returns the same record and
\* error whether or not More is called right before it.
MoreOnlyPeeks ==
    (Unconsumed # <<>> /\ Unconsumed[1] # LF)
        => LET a == Decode(d, r)
               m == More(d, r)
               b == Decode(m.d, m.r)
           IN a.fields = b.fields /\ a.err = b.err

\* C10: field-count enforcement.  A negative FieldsPerRecord never fails a
\* Decode with ErrFieldCount and is never changed; a positive one fails
\* exactly the records whose count differs and is never changed; zero is
\* replaced by the count of the first record decoded; More and failed reads
\* leave the setting alone.
FieldCountEnforced ==
    [][(Len(results') = Len(results) + 1) =>
        LET o == Last(results')
            n == d.FieldsPerRecord
        IN IF o.op = "More" \/ d.err # Nil THEN d'.FieldsPerRecord = n
           ELSE /\ (n < 0) => (o.err # ErrFieldCount /\ d'.FieldsPerRecord = n)
                /\ (n > 0) => /\ d'.FieldsPerRecord = n
                              /\ (o.fields # NoRecord) =>
                                    /\ o.err \in {Nil, ErrFieldCount}
                                    /\ (o.err = ErrFieldCount) <=> (Len(o.fields) # n)
                              /\ (o.fields = NoRecord) => o.err \notin {Nil, ErrFieldCount}
                /\ (n = 0) => /\ o.err # ErrFieldCount
                              /\ (o.err = Nil) => (d'.FieldsPerRecord = Len(o.fields))
                              /\ (o.err # Nil) => (d'.FieldsPerRecord = 0)]_vars

\* a first record of one field locks the count, a later record of two fails
FieldCountEnforcedWitness ==
    /\ cfg.FieldsPerRecord = 0
    /\ d.FieldsPerRecord = 1
    /\ \E i, j \in 1..Len(results) :
          /\ i < j
          /\ results[i].op = "Decode" /\ results[i].err = Nil /\ Len(results[i].fields) = 1
          /\ results[j].op = "Decode" /\ results[j].err = ErrFieldCount
          /\ Len(results[j].fields) = 2

\* C1: refill-boundary independence.  However the source cuts the input
\* into reads, and whether end-of-input comes with the last bytes or alone,
\* the loop's outcomes are those of the same input delivered in one read.
ChunkIndependent ==
    LET whole == LoopRun(Configured(cfg), Source(r.data, {}, EOF, FALSE), MaxResults)
    IN /\ IsPrefix(results, whole)
       /\ (pc = "done") => (results = whole)

\* a record of two fields decoded from an input delivered byte by byte
ChunkIndependentWitness ==
    /\ pc = "done"
    /\ Len(r.data) >= 3
    /\ r.cuts = 1..(Len(r.data) - 1)
    /\ \E i \in 1..Len(results) :
          results[i].op = "Decode" /\ results[i].err = Nil /\ Len(results[i].fields) = 2

\* the fields of a line split on the delimiter
RECURSIVE Split(_, _)
Split(line, delim) ==
    IF \E k \in 1..Len(line) : line[k] = delim
    THEN LET k == Min({j \in 1..Len(line) : line[j] = delim})
         IN <<SubSeq(line, 1, k - 1)>> \o Split(SubSeq(line, k + 1, Len(line)), delim)
    ELSE <<line>>

Has(sq, c) == \E k \in 1..Len(sq) : sq[k] = c

\* the caller's first call was Decode and nothing has been called since
FirstCallDecode == Len(results) = 1 /\ results[1].op = "Decode"

\* C7: a record line without quote, carriage return or line feed, ended by
\* a line feed or by the end of the input, decodes to the line split on the
\* configured delimiter.
DecodeSplitsLine ==
    (FirstCallDecode /\ ~Has(shape.body, QUOTE) /\ shape.term # <<CR, LF>>)
        => /\ results[1].err = Nil
           /\ results[1].fields = Split(shape.body, cfg.Delimiter)

\* C7 restricted to lines that hold no NUL byte
DecodeSplitsLineNoNUL == Has(shape.body, NUL) \/ DecodeSplitsLine

\* the record shapes of C9: every field unquoted (the last one empty or
\* not), or unquoted fields followed by a last, quoted field
UnquotedLine(body) == body # <<>> /\ ~Has(body, QUOTE)
LastFieldQuoted(body, delim) ==
    \E k \in 1..(Len(body) - 1) :
        /\ body[k] = QUOTE /\ body[Len(body)] = QUOTE
        /\ \A j \in 1..(Len(body) - 1) : (j # k) => body[j] # QUOTE
        /\ (k = 1 \/ body[k - 1] = delim)

\* C9: a record ended by CR LF decodes to the fields of the same record
\* ended by LF alone.
CRLFSameAsLF ==
    (/\ FirstCallDecode
     /\ shape.term = <<CR, LF>>
     /\ (UnquotedLine(shape.body) \/ LastFieldQuoted(shape.body, cfg.Delimiter)))
        => LET lf == Decode(Configured(cfg), Source(shape.body \o <<LF>>, {}, EOF, FALSE))
           IN results[1].fields = lf.fields /\ results[1].err = lf.err

\* C8: a quoted field decodes to its content: every doubled quote gives one
\* quote byte and the enclosing quotes are dropped.
QuotedFieldDecoded ==
    \A i \in 1..Len(results) :
        (results[i].op = "Decode" /\ \A j \in 1..(i - 1) : results[j].op = "More")
            => LET k == IF shape.prefix = <<>> THEN 1 ELSE 2
                   o == results[i]
               IN /\ o.err = Nil
                  /\ Len(o.fields) = (IF shape.suffix = <<COMMA, LetterA>> THEN k + 1 ELSE k)
                  /\ o.fields[k] = shape.content

\* the field "a""a" decoded after a More call, as the second field
QuotedFieldDecodedWitness ==
    /\ shape.content = <<LetterA, QUOTE, LetterA>>
    /\ shape.prefix # <<>>
    /\ Len(results) = 2
    /\ results[1].op = "More"
    /\ results[2].op = "Decode" /\ results[2].err = Nil

\* every quote of the line sits inside an unquoted field: it is neither the
\* first byte of the line nor the first byte after a delimiter
QuotesInsideUnquoted(body, delim) ==
    /\ Has(body, QUOTE)
    /\ \A k \in 1..Len(body) :
          (body[k] = QUOTE) => (k > 1 /\ body[k - 1] # delim)

\* the scanner options that change nothing but the handling of quotes
QuoteOptionsOnly == ~cfg.TrimLeadingSpace /\ cfg.Comment = NUL

\* C11: a quote byte inside an unquoted field makes Decode fail with
\* ErrBareQuote and return no record when LazyQuotes is off; when it is on
\* Decode succeeds and the quote stays in its field, at its place.
BareQuoteInUnquotedField ==
    (/\ FirstCallDecode
     /\ QuoteOptionsOnly
     /\ QuotesInsideUnquoted(shape.body, cfg.Delimiter))
        => IF cfg.LazyQuotes
           THEN /\ results[1].err = Nil
                /\ (~Has(shape.body, CR) /\ shape.term # <<CR, LF>>)
                       => results[1].fields = Split(shape.body, cfg.Delimiter)
           ELSE /\ results[1].err = ErrBareQuote
                /\ results[1].fields = NoRecord

\* C11 on the lines in which no carriage return comes before a quote
BareQuoteNoCarriageReturn == Has(shape.body, CR) \/ BareQuoteInUnquotedField

\* C12: when the source is exhausted while a record is in progress (bytes
\* of it consumed, no line feed seen), Decode returns the unexpected
\* end-of-input error and no record, and the decoder is failed.  (Lines
\* that start with a NUL byte are left out: they are read as comments.)
UnexpectedEndOfInput ==
    (FirstCallDecode /\ shape.term = <<>> /\ shape.body # <<>> /\ ~Has(shape.body, NUL))
        => /\ results[1].err = ErrUnexpectedEOF
           /\ results[1].fields = NoRecord
           /\ d.err # Nil

\* the input ended cleanly between records: nothing unconsumed, the source
\* at its end and the decoder not failed
CleanEnd == Unconsumed = <<>> /\ r.endErr = EOF /\ d.err = Nil

\* C13: a Decode call made where the input ended cleanly between records
\* returns no record (not even one empty field) and no manufactured error
\* such as ErrFieldCount.
DecodeAtCleanEnd ==
    CleanEnd => \E dc \in {Decode(d, r)} :
                    /\ dc.fields = NoRecord
                    /\ dc.err # ErrFieldCount

\* one of the next n Decode calls returns the error e and leaves the
\* decoder failed with it, the calls before it returning records
RECURSIVE DecodeReports(_, _, _, _)
DecodeReports(dd, rr, e, n) ==
    /\ n > 0
    /\ \E dc \in {Decode(dd, rr)} :
          \/ dc.err = e /\ dc.d.err = e
          \/ dc.err = Nil /\ DecodeReports(dc.d, dc.r, e, n - 1)

\* C14: a failure of a source read, other than end-of-input, is never
\* swallowed: once a read issued by More or Decode has returned it, a
\* Decode call has returned exactly that error and left the decoder failed,
\* or the Decode calls that follow do so once the buffered records are
\* delivered, whether or not the source repeats the failure.
SourceErrorSurfaces ==
    (r.reported # Nil /\ cfg.FieldsPerRecord = 0)
        => \/ /\ d.err = r.reported
              /\ \E i \in 1..Len(results) :
                    results[i].op = "Decode" /\ results[i].err = r.reported
           \/ DecodeReports(d, r, r.reported, Len(r.data) + 2)

\* C14 over the sources that repeat their failure on every later read
SourceErrorSurfacesIfRepeated == (r.after # r.reported) \/ SourceErrorSurfaces

\* the input without the lines whose first byte is the comment marker
RECURSIVE StripComments(_, _)
StripComments(data, marker) ==
    IF data = <<>> THEN <<>>
    ELSE LET k == IF Has(data, LF) THEN Min({j \in 1..Len(data) : data[j] = LF})
                  ELSE Len(data)
         IN (IF data[1] = marker THEN <<>> ELSE SubSeq(data, 1, k))
                \o StripComments(SubSeq(data, k + 1, Len(data)), marker)

\* C15: with a comment marker configured, a line that starts with the
\* marker gives no record and no field, wherever it stands in the input and
\* with or without a line feed after it: the loop delivers what it delivers
\* for the input without its comment lines.
CommentLinesSkipped ==
    (/\ pc = "done"
     /\ cfg.Comment = HASH
     /\ ~Has(r.data, QUOTE) /\ ~Has(r.data, CR))
        => Delivered(results, 1, <<>>)
              = Delivered(LoopRun(Configured(cfg),
                                  Source(StripComments(r.data, cfg.Comment), {}, EOF, FALSE),
                                  MaxResults), 1, <<>>)

\* C16: the scanner's error state is absorbing.  After a step call has
\* returned scanError, every later step call returns scanError with the
\* error still stored, until reset is called.
ScannerErrorAbsorbing ==
    \A i, j \in 1..Len(results) :
        (/\ i < j
         /\ results[i].op = "step" /\ results[i].v = scanError
         /\ \A k \in (i + 1)..j : results[k].op = "step")
            => (results[j].v = scanError /\ results[j].err # Nil)

\* C16, the part about the stored error alone
ScannerErrorKept ==
    \A i, j \in 1..Len(results) :
        (/\ i < j
         /\ results[i].op = "step" /\ results[i].v = scanError
         /\ \A k \in (i + 1)..j : results[k].op = "step")
            => results[j].err = results[i].err

\* the line starts with a quoted field whose content holds no quote: the
\* position of its closing quote, or 0
ClosingQuote(body) ==
    IF Len(body) >= 2 /\ body[1] = QUOTE /\ Has(Tail(body), QUOTE)
    THEN Min({k \in 2..Len(body) : body[k] = QUOTE})
    ELSE 0

\* C17: with LazyQuotes off, a closing quote followed by a byte other than
\* the delimiter, a line terminator (LF or CR LF) or another quote makes
\* Decode fail with ErrQuote; followed by the delimiter or a line terminator
\* it ends the field without error.
ClosingQuoteFollowed ==
    (/\ FirstCallDecode
     /\ QuoteOptionsOnly /\ ~cfg.LazyQuotes
     /\ ClosingQuote(shape.body) # 0)
        => LET k == ClosingQuote(shape.body)
               content == SubSeq(shape.body, 2, k - 1)
               follow == SubSeq(shape.body, k + 1, Len(shape.body)) \o shape.term
           IN /\ (follow = <<LF>> \/ follow = <<CR, LF>>)
                    => (results[1].err = Nil /\ results[1].fields = <<content>>)
              /\ (/\ follow # <<>> /\ follow[1] = cfg.Delimiter
                  /\ ~Has(follow, QUOTE) /\ ~Has(follow, CR))
                    => (results[1].err = Nil /\ results[1].fields[1] = content)
              /\ (/\ follow # <<>> /\ follow[1] \notin {cfg.Delimiter, QUOTE, LF}
                  /\ ~(follow[1] = CR /\ Len(follow) >= 2 /\ follow[2] = LF))
                    => (results[1].err = ErrQuote /\ results[1].fields = NoRecord)

\* C17 on the records that do not end with CR LF right after the quote
ClosingQuoteFollowedNoCRLF ==
    \/ (/\ ClosingQuote(shape.body) # 0
        /\ SubSeq(shape.body, ClosingQuote(shape.body) + 1, Len(shape.body)) \o shape.term
              = <<CR, LF>>)
    \/ ClosingQuoteFollowed

\* the line is one quoted field with a single quote inside it, at k, and
\* that quote is followed by a byte that is neither delimiter nor quote
LoneQuoteInside(body, k) ==
    /\ Len(body) >= 4
    /\ 1 < k /\ k < Len(body) - 1
    /\ \A j \in 1..Len(body) : (body[j] = QUOTE) <=> (j \in {1, k, Len(body)})
    /\ body[k + 1] # COMMA

\* C18: with LazyQuotes on, a quote inside a quoted field that is followed
\* by a byte other than delimiter, line feed and quote is content: the
\* field holds that quote and the byte after it, and goes on to the closing
\* quote.
LazyQuoteKept ==
    (/\ FirstCallDecode
     /\ QuoteOptionsOnly /\ cfg.LazyQuotes
     /\ shape.term # <<CR, LF>>
     /\ \E k \in 1..Len(shape.body) : LoneQuoteInside(shape.body, k))
        => /\ results[1].err = Nil
           /\ results[1].fields = <<SubSeq(shape.body, 2, Len(shape.body) - 1)>>

\* white space at the start of a field
RECURSIVE TrimLeft(_)
TrimLeft(f) == IF f # <<>> /\ Head(f) \in {SP, TAB} THEN TrimLeft(Tail(f)) ELSE f

\* a line of unquoted fields, with no carriage return and no comment
PlainLine ==
    /\ cfg.Comment = NUL /\ ~cfg.LazyQuotes
    /\ ~Has(shape.body, QUOTE) /\ ~Has(shape.body, CR)
    /\ shape.term # <<CR, LF>>

\* C19: with TrimLeadingSpace the leading spaces and tabs of every field
\* are dropped and the white space inside and at the end of it is kept;
\* without it every leading white-space byte is kept.
LeadingSpaceTrimmed ==
    (FirstCallDecode /\ PlainLine)
        => LET whole == Split(shape.body, cfg.Delimiter)
           IN /\ results[1].err = Nil
              /\ results[1].fields =
                    IF cfg.TrimLeadingSpace
                    THEN [i \in 1..Len(whole) |-> TrimLeft(whole[i])]
                    ELSE whole

\* C19 on the lines that hold no tab
LeadingSpaceTrimmedNoTab == Has(shape.body, TAB) \/ LeadingSpaceTrimmed

\* the line starts with white space and then the comment marker: the number
\* of white-space bytes, or 0
SpacesBeforeMarker(body, marker) ==
    IF \E n \in 1..(Len(body) - 1) :
          body[n + 1] = marker /\ \A i \in 1..n : body[i] \in {SP, TAB}
    THEN Min({n \in 1..(Len(body) - 1) : body[n + 1] = marker})
    ELSE 0

\* C20: a comment marker with white space before it on its line does not
\* start a comment: Decode, called with or without More before it, returns
\* a record whose first field holds the marker and what follows it, also
\* when TrimLeadingSpace is on.
MarkerAfterSpaceIsContent ==
    (/\ pc = "done"
     /\ cfg.Comment = HASH
     /\ ~Has(shape.body, QUOTE) /\ ~Has(shape.body, CR) /\ shape.term # <<CR, LF>>
     /\ SpacesBeforeMarker(shape.body, HASH) # 0)
        => LET o == Last(results)
               first == Split(shape.body, cfg.Delimiter)[1]
           IN /\ o.err = Nil
              /\ \E j \in 0..SpacesBeforeMarker(shape.body, HASH) :
                    o.fields[1] = SubSeq(first, j + 1, Len(first))

\* C20 for Decode called first, without TrimLeadingSpace
MarkerAfterSpaceUntrimmed ==
    (cfg.TrimLeadingSpace \/ ~FirstCallDecode) \/ MarkerAfterSpaceIsContent


\* C21: with no comment marker configured (Comment = 0) no byte starts a
\* comment: the scanner never enters the comment state, and a line whose
\* first byte is NUL decodes to that line split on the delimiter, with the
\* NUL byte and everything after it kept.
NoCommentWithoutMarker ==
    cfg.Comment = NUL =>
        /\ d.scan.step # "stateBeginComment"
        /\ (/\ FirstCallDecode
            /\ shape.body # <<>> /\ shape.body[1] = NUL
            /\ ~Has(shape.body, QUOTE) /\ shape.term # <<CR, LF>>)
               => /\ results[1].err = Nil
                  /\ results[1].fields = Split(shape.body, cfg.Delimiter)


\* the events of the record being assembled: what results holds after the
\* last entry into readRecord
RECURSIVE SinceBegin(_)
SinceBegin(rs) ==
    IF rs = <<>> THEN <<>>
    ELSE IF Last(rs) = BeginEvent THEN <<>>
    ELSE Append(SinceBegin(SubSeq(rs, 1, Len(rs) - 1)), Last(rs))

IsDelimiterEvent(o) == o.op = "byte" /\ o.v = scanFieldDelimiter

Assembling == pc \in {"scan", "readRefill", "slice"}

\* C22: while a record is being assembled and when Decode slices it,
\* fieldIndexes starts with 0, never decreases, never points past the end of
\* lineBuffer, and holds one entry more than the number of bytes the scanner
\* has classified FieldDelimiter in this record.
FieldOffsetInvariant ==
    Assembling =>
        LET fi == d.fieldIndexes IN
        /\ Len(fi) >= 1 /\ fi[1] = 0
        /\ \A i \in 1..(Len(fi) - 1) : fi[i] <= fi[i + 1]
        /\ \A i \in 1..Len(fi) : fi[i] <= Len(d.lineBuffer)
        /\ Len(fi) = 1 + Len(SelectSeq(SinceBegin(results), IsDelimiterEvent))

\* a record of two fields, the first not empty, about to be sliced
FieldOffsetWitness ==
    pc = "slice" /\ Len(d.fieldIndexes) >= 2 /\ d.fieldIndexes[2] > 0


\* where one read of the source r stops
NextStop(src) ==
    IF src.pos >= Len(src.data) THEN src.pos
    ELSE Min({k \in src.cuts : k > src.pos} \cup {Len(src.data)})

\* C24: a refill leaves the cursor at 0 and the buffer holding the bytes
\* that stood at and after the cursor, in their order, then the bytes of
\* exactly one source read; the scanner, lineBuffer, fieldIndexes,
\* FieldsPerRecord and the decoder's error are as before.
RefillPreservesUnconsumed ==
    [][(pc \in {"peekRefill", "readRefill"}) =>
          /\ d'.scanp = 0
          /\ r'.pos = NextStop(r)
          /\ d'.buf = SubSeq(d.buf, d.scanp + 1, Len(d.buf))
                          \o SubSeq(r.data, r.pos + 1, r'.pos)
          /\ d'.scan = d.scan
          /\ d'.lineBuffer = d.lineBuffer
          /\ d'.fieldIndexes = d.fieldIndexes
          /\ d'.FieldsPerRecord = d.FieldsPerRecord
          /\ d'.err = d.err]_vars

\* a second record whose first bytes were slid down by a refill that also
\* brought new bytes
RefillPreservesWitness ==
    /\ pc = "scan"
    /\ \E k \in 1..Len(results) : results[k].op = "Decode" /\ results[k].ok
    /\ d.scanp = 0 /\ frame.scanp > 0 /\ Len(d.buf) > frame.scanp


RECURSIVE Concat(_)
Concat(fs) == IF fs = <<>> THEN <<>> ELSE Head(fs) \o Concat(Tail(fs))

\* C26: in readRecord's loop a byte classified Continue or BeginField is
\* appended to lineBuffer, a byte classified SkipSpace, FieldDelimiter,
\* EndRecord or Error is not, and nothing but the byte just scanned is ever
\* appended; the fields Decode slices, concatenated, are lineBuffer.
AppendedBytesAreFields ==
    [][/\ (pc = "scan" /\ frame.scanp < Len(d.buf)) =>
            LET e == results'[Len(results) + 1] IN
            /\ e = ByteEvent(d.buf[frame.scanp + 1], e.v)
            /\ (e.v \in {scanContinue, scanBeginField})
                  => d'.lineBuffer = Append(d.lineBuffer, e.c)
            /\ (e.v \in {scanSkipSpace, scanFieldDelimiter, scanEndRecord, scanError})
                  => d'.lineBuffer = d.lineBuffer
            /\ d'.lineBuffer \in {d.lineBuffer, Append(d.lineBuffer, e.c)}
       /\ (pc = "slice") =>
            /\ Last(results').op = "Decode"
            /\ Concat(Last(results').fields) = d.lineBuffer
            /\ d'.lineBuffer = d.lineBuffer]_vars

\* a record of two fields returned after a byte that began a field and
\* was appended, and a delimiter and a line feed that were not
AppendedBytesWitness ==
    /\ pc = "idle" /\ results # <<>>
    /\ Last(results).op = "Decode" /\ Last(results).ok
    /\ Len(Last(results).fields) = 2
    /\ \A v \in {scanBeginField, scanFieldDelimiter, scanEndRecord} :
          \E k \in 1..Len(results) : results[k].op = "byte" /\ results[k].v = v


\* the line holds carriage returns, each of them inside an unquoted field
\* (after a byte of the field) and followed by a byte of the same line
LoneCarriageReturns(body, delim) ==
    /\ Has(body, CR)
    /\ \A k \in 1..Len(body) :
          (body[k] = CR) => /\ k > 1 /\ body[k - 1] # delim
                            /\ k < Len(body)

\* C23: the byte after a lone carriage return of an unquoted field is
\* processed as the unquoted field would process it, and neither byte is
\* lost: without quotes the record is the line split on the delimiter,
\* carriage returns kept; a quote right after the carriage return fails
\* with ErrBareQuote unless LazyQuotes is on.
LoneCarriageReturnRedone ==
    (/\ FirstCallDecode
     /\ QuoteOptionsOnly
     /\ shape.term # <<CR, LF>>
     /\ LoneCarriageReturns(shape.body, cfg.Delimiter))
        => IF ~Has(shape.body, QUOTE)
           THEN /\ results[1].err = Nil
                /\ results[1].fields = Split(shape.body, cfg.Delimiter)
           ELSE (/\ ~cfg.LazyQuotes
                 /\ \A k \in 1..Len(shape.body) :
                       (shape.body[k] = QUOTE) => (k > 1 /\ shape.body[k - 1] = CR))
                    => results[1].err = ErrBareQuote


\* the line does not start with the marker, and a later field of it does
MarkerStartsLaterField(body, delim, marker) ==
    /\ body # <<>> /\ body[1] # marker
    /\ \E k \in 2..Len(body) : body[k] = marker /\ body[k - 1] = delim

\* C29: a comment marker that is the first byte of a later field of a
\* record is content of that field: the record is the line split on the
\* delimiter, the scanner does not enter the comment state, and the line
\* feed of the line ends the record (nothing is left unconsumed).
MarkerInLaterFieldIsContent ==
    (/\ FirstCallDecode
     /\ cfg.Comment = HASH /\ ~cfg.TrimLeadingSpace
     /\ ~Has(shape.body, QUOTE) /\ ~Has(shape.body, CR) /\ shape.term # <<CR, LF>>
     /\ MarkerStartsLaterField(shape.body, cfg.Delimiter, HASH))
        => /\ results[1].err = Nil
           /\ results[1].fields = Split(shape.body, cfg.Delimiter)
           /\ d.scan.step # "stateBeginComment"
           /\ Unconsumed = <<>>


\* C28: a Decode call on a failed decoder changes nothing: the source is
\* not read and buf, scanp, the scanner, lineBuffer, fieldIndexes and
\* FieldsPerRecord are what they were.
FailedDecodeHasNoEffect ==
    [][(/\ d.err # Nil
        /\ Len(results') = Len(results) + 1
        /\ Last(results').op = "Decode")
           => (d' = d /\ r' = r)]_vars

\* Decode called again right after it failed on a bare quote, with the
\* bytes of the failed record still in lineBuffer
FailedDecodeWitness ==
    /\ Len(results) >= 2
    /\ Last(results).op = "Decode"
    /\ results[Len(results) - 1].op = "Decode"
    /\ results[Len(results) - 1].err = ErrBareQuote
    /\ d.err = ErrBareQuote
    /\ d.lineBuffer # <<>>


\* what a call leaves unconsumed, given the decoder and the source after it
Rest(dd, rr) == SubSeq(dd.buf, dd.scanp + 1, Len(dd.buf)) \o SubSeq(rr.data, rr.pos + 1, Len(rr.data))

\* a decoder that has decoded nothing, with the configuration and the
\* field count of the running one, on a source holding what is unconsumed
FreshDecoder == [Configured(cfg) EXCEPT !.FieldsPerRecord = d.FieldsPerRecord]
FreshSource == [Source(Unconsumed, {}, r.endErr, FALSE) EXCEPT !.after = r.after]

\* C30: after records have been decoded, the next Decode returns what a
\* decoder that has seen none of them returns on the unconsumed input
\* (same configuration, same expected field count): the same fields, the
\* same error, the same bytes consumed.
RecordIndependence ==
    (d.err = Nil /\ \E k \in 1..Len(results) : results[k].op = "Decode" /\ results[k].ok)
        => LET here == Decode(d, r)
               alone == Decode(FreshDecoder, FreshSource)
           IN /\ here.fields = alone.fields
              /\ here.err = alone.err
              /\ Rest(here.d, here.r) = Rest(alone.d, alone.r)

\* a record has been decoded, input is left, and the scanner still stands
\* in the state the end of that record left it in
RecordIndependenceWitness ==
    /\ d.err = Nil
    /\ \E k \in 1..Len(results) : results[k].op = "Decode" /\ results[k].ok
    /\ Unconsumed # <<>>
    /\ d.scan.step # "stateBeginValue"


\* the records of the lines of data that are not empty and end with a line
\* feed, in their order
RECURSIVE CompleteRecords(_, _)
CompleteRecords(data, delim) ==
    IF ~Has(data, LF) THEN <<>>
    ELSE LET k == Min({j \in 1..Len(data) : data[j] = LF})
             line == SubSeq(data, 1, k - 1)
         IN (IF line = <<>> THEN <<>> ELSE <<Split(line, delim)>>)
                \o CompleteRecords(SubSeq(data, k + 1, Len(data)), delim)

\* C25: the end of input is looked at only after the bytes read with it (or
\* right before it) have been scanned: when More reports false, Decode has
\* returned every complete record of the input, in order and before any
\* error, however the reads cut the input and whether the last read
\* carries the end of input or not.
EndOfInputDeferred ==
    (pc = "done")
        => /\ ~Last(results).ok
           /\ IsPrefix(CompleteRecords(r.data, cfg.Delimiter),
                       Delivered(results, 1, <<>>).records)

\* the whole input, two complete records, came in one read together with
\* the end of input, and both records were delivered
EndOfInputDeferredWitness ==
    /\ pc = "done"
    /\ r.errWithData /\ r.cuts = {}
    /\ Len(CompleteRecords(r.data, cfg.Delimiter)) = 2
    /\ Len(Delivered(results, 1, <<>>).records) = 2


\* C27: delimiters, carriage returns and line feeds between the quotes of
\* a quoted field are content of the field, and one Decode call returns
\* the whole record, whatever lines the field spans and however the reads
\* cut it: the first field is the content, the record has the fields of
\* its line and nothing of it is left unconsumed.
QuotedFieldSpansLines ==
    (pc = "done")
        => LET o == Last(results)
           IN /\ o.op = "Decode" /\ o.err = Nil
              /\ Len(o.fields) = (IF shape.suffix = <<COMMA, LetterA, LF>> THEN 2 ELSE 1)
              /\ o.fields[1] = shape.content
              /\ Unconsumed = <<>>

\* a quoted field of two lines that holds a delimiter, read in two reads
\* cut inside the field, decoded by the first call as the first of two fields
QuotedFieldSpansLinesWitness ==
    /\ pc = "done"
    /\ Has(shape.content, LF) /\ Has(shape.content, COMMA)
    /\ \E k \in r.cuts : k > 1 /\ k <= Len(shape.content)
    /\ shape.suffix = <<COMMA, LetterA, LF>>
    /\ Len(results) = 1
    /\ results[1].err = Nil /\ Len(results[1].fields) = 2


\* the cursor, and readRecord's own position while it runs, are inside buf
CursorInRange(dd, fr, p) ==
    /\ 0 <= dd.scanp /\ dd.scanp <= Len(dd.buf)
    /\ (p \in {"scan", "readRefill", "slice"})
          => (dd.scanp <= fr.scanp /\ fr.scanp <= Len(dd.buf))

\* C32: before and after every step of More, Decode and refill the cursor
\* is within the buffer (0 <= scanp <= len(buf), and readRecord's position
\* lies between the cursor and len(buf)); the cursor moves backwards only
\* in a refill, which leaves it at 0.
CursorInvariant ==
    [][/\ CursorInRange(d, frame, pc)
       /\ CursorInRange(d', frame', pc')
       /\ (d'.scanp < d.scanp)
             => (pc \in {"peekRefill", "readRefill"} /\ d'.scanp = 0)]_vars

\* More after a decoded record: the refill of peek has slid the consumed
\* record away, put the cursor back to 0 and brought new bytes
CursorInvariantWitness ==
    /\ pc = "peek"
    /\ \E k \in 1..Len(results) : results[k].op = "Decode" /\ results[k].ok
    /\ d.scanp = 0 /\ d.buf # <<>>


Max(S) == CHOOSE x \in S : \A y \in S : x >= y

\* the number of bytes of the longest read the source src delivers
LargestRead(src) ==
    LET stops == {0} \cup {k \in src.cuts : k < Len(src.data)} \cup {Len(src.data)}
    IN Max({b - Max({a \in stops : a < b}) : b \in stops \ {0}} \cup {0})

\* the bytes of the record in progress that a refill finds in the buffer:
\* those readRecord has scanned, none when More looks for the next record
RecordSoFar == IF pc = "readRefill" THEN frame.scanp - d.scanp ELSE 0

\* C31: the buffer never holds more than the record being assembled plus
\* one source read: after every refill, of More or of Decode, len(buf) is
\* at most the bytes of the record scanned so far plus the longest read of
\* the source; white space More has skipped does not pile up.
BoundedReadAhead ==
    [][(pc \in {"peekRefill", "readRefill"})
          => Len(d'.buf) <= RecordSoFar + LargestRead(r)]_vars

\* C31 for the refills of readRecord alone
BoundedReadAheadInRecord ==
    [][(pc = "readRefill") => Len(d'.buf) <= RecordSoFar + LargestRead(r)]_vars


\* the bytes More has stepped over and the scanner has been fed, in the
\* order in which that happened
IsProcessed(o) == o.op = "skip" \/ o.op = "byte"
Processed(rs) ==
    LET ev == SelectSeq(rs, IsProcessed) IN [k \in 1..Len(ev) |-> ev[k].c]

\* the last byte the scanner was fed ended a record
EndedByTerminator(rs) ==
    LET ev == SelectSeq(rs, IsProcessed)
    IN ev # <<>> /\ Last(ev).op = "byte" /\ Last(ev).v = scanEndRecord

RECURSIVE UnquotedDelimiters(_, _, _, _)
UnquotedDelimiters(body, k, mode, c) ==
    IF k > Len(body) THEN 0
    ELSE IF mode = "start" THEN
        IF body[k] = QUOTE THEN UnquotedDelimiters(body, k + 1, "quoted", c)
        ELSE IF body[k] = c.Delimiter THEN 1 + UnquotedDelimiters(body, k + 1, "start", c)
        ELSE IF body[k] = SP /\ c.TrimLeadingSpace
        THEN UnquotedDelimiters(body, k + 1, "start", c)
        ELSE UnquotedDelimiters(body, k + 1, "plain", c)
    ELSE IF mode = "plain" THEN
        IF body[k] = c.Delimiter THEN 1 + UnquotedDelimiters(body, k + 1, "start", c)
        ELSE UnquotedDelimiters(body, k + 1, "plain", c)
    ELSE IF mode = "quoted" THEN
        IF body[k] = QUOTE THEN UnquotedDelimiters(body, k + 1, "closing", c)
        ELSE UnquotedDelimiters(body, k + 1, "quoted", c)
    ELSE IF body[k] = c.Delimiter THEN 1 + UnquotedDelimiters(body, k + 1, "start", c)
    ELSE UnquotedDelimiters(body, k + 1, "quoted", c)

\* the line is a comment under the configuration c
IsCommentLine(body, c) == c.Comment # NUL /\ body # <<>> /\ body[1] = c.Comment

\* the bytes the step consumes: what was unconsumed before it and is not after
Consumed == SubSeq(Unconsumed, 1, Len(Unconsumed) - Len(Unconsumed'))

\* a Decode call returns a record whose fields are the delimiters of the
\* consumed text outside quoted fields, plus one
CountsDelimiters ==
    /\ Len(Last(results').fields) >= 1
    /\ Len(Last(results').fields) = 1 + UnquotedDelimiters(Consumed, 1, "start", cfg)

\* C34: a Decode that succeeds returns at least one field, and as many
\* fields as the text of its record (the bytes it consumes, a comment line
\* apart) has delimiter bytes outside quoted fields, plus one.
FieldCountIsDelimitersPlusOne ==
    [][(/\ pc = "once" /\ pc' = "done" /\ Last(results').ok
        /\ ~IsCommentLine(Consumed, cfg))
           => CountsDelimiters]_vars

\* C34 without a comment marker configured, on text without carriage return
FieldCountPlainText ==
    [][(/\ pc = "once" /\ pc' = "done" /\ Last(results').ok
        /\ cfg.Comment = NUL /\ ~Has(Consumed, CR))
           => CountsDelimiters]_vars


\* the number of lines of data, counted from byte k on, that are neither
\* empty (a line feed or CR LF with nothing before it) nor comments; a line
\* ends at a line feed outside a quoted field.  mode tells where byte k
\* stands: at the beginning of a line, in a comment, at the start of a
\* field, in an unquoted field, in a quoted field, or right after a quote
\* met inside a quoted field
RECURSIVE RecordLines(_, _, _, _)
RecordLines(data, k, mode, c) ==
    IF k > Len(data) THEN 0
    ELSE IF mode = "line" THEN
        IF data[k] = LF THEN RecordLines(data, k + 1, "line", c)
        ELSE IF data[k] = CR /\ k < Len(data) /\ data[k + 1] = LF
        THEN RecordLines(data, k + 2, "line", c)
        ELSE IF c.Comment # NUL /\ data[k] = c.Comment
        THEN RecordLines(data, k + 1, "comment", c)
        ELSE 1 + RecordLines(data, k, "start", c)
    ELSE IF mode = "comment" THEN
        RecordLines(data, k + 1, IF data[k] = LF THEN "line" ELSE "comment", c)
    ELSE IF mode = "quoted" THEN
        RecordLines(data, k + 1, IF data[k] = QUOTE THEN "closing" ELSE "quoted", c)
    ELSE IF data[k] = LF THEN RecordLines(data, k + 1, "line", c)
    ELSE IF data[k] = c.Delimiter THEN RecordLines(data, k + 1, "start", c)
    ELSE IF mode = "start" THEN
        IF data[k] = QUOTE THEN RecordLines(data, k + 1, "quoted", c)
        ELSE IF data[k] = SP /\ c.TrimLeadingSpace THEN RecordLines(data, k + 1, "start", c)
        ELSE RecordLines(data, k + 1, "plain", c)
    ELSE IF mode = "plain" THEN RecordLines(data, k + 1, "plain", c)
    ELSE RecordLines(data, k + 1, "quoted", c)

\* C35: the loop returns one record for every line that is not empty and
\* not a comment, quoted fields counted with the line they start on: empty
\* lines before, between and after the records give no record.
OneRecordPerLine ==
    (pc = "done" /\ Delivered(results, 1, <<>>).err = Nil)
        => Len(Delivered(results, 1, <<>>).records) = RecordLines(r.data, 1, "line", cfg)


\* every carriage return of data is followed by a line feed
OnlyCRLF(data) ==
    \A k \in 1..Len(data) : (data[k] = CR) => (k < Len(data) /\ data[k + 1] = LF)

\* C35 with no comment marker and no trimming configured, on inputs whose
\* carriage returns all belong to a CR LF
OneRecordPerPlainLine ==
    (cfg.Comment = NUL /\ ~cfg.TrimLeadingSpace /\ OnlyCRLF(r.data)) => OneRecordPerLine

====
